---- MODULE Spec2Model ----
(***************************************************************************)
(* Model of the SRv6 configuration parser of srv6_automation/srv6_utils.py *)
(* (parse_srv6_config).  The parser is a single pass over the lines of the *)
(* input text; one step of the model is one iteration of its loop.         *)
(*                                                                         *)
(* A line is modelled as the sequence of whitespace-separated tokens of    *)
(* raw.strip().  The character '#' occurs in the modelled alphabet only as *)
(* the first character of a comment token, so every regular expression of  *)
(* the source is translated to a predicate on token sequences.             *)
(*                                                                         *)
(* Lines 266-273 of srv6_utils.py are indented two columns deeper than the *)
(* statements before them; they are read as the continuation of the        *)
(* "if len(tokens) >= 2" block, which is the only reading under which      *)
(* cidr and prefix_obj are defined.                                        *)
(***************************************************************************)
EXTENDS Integers, Sequences, FiniteSets, TLC

\* Number of input lines the parser is run on.
MaxLines == 5

\* Python's None, for the optional strings of the result and the parser state.
None == "<None>"

\* last_prefix_obj is a reference to a dict stored in some locator's
\* "prefixes" list; the lists are only appended to, so the reference is the
\* pair (locator name, index).  NoRef is last_prefix_obj = None.
NoRef == [loc |-> None, idx |-> 0]

------------------------------------------------------------------------------
(* Input alphabet *)

CommentTokens == {"#c"}

Lines ==
  { <<>>,
    <<"#c">>,
    <<"source-address", "S1">>,
    <<"SOURCE_ADDRESS", "S2", "#c">>,
    <<"source-address">>,
    <<"locator", "A">>,
    <<"locator", "B">>,
    <<"locator">>,
    <<"prefix", "P1">>,
    <<"PREFIX", "P2", "#c">>,
    <<"prefix", "P2", "behavior", "Y", "psp">>,
    <<"prefix", "P1", "no", "usp">>,
    <<"prefix">>,
    <<"behavior", "X">>,
    <<"behavior", "Y">>,
    <<"behavior", "X", "Y">>,
    <<"micro-segment", "behavior", "X">>,
    <<"MICRO_segment-behavior", "Y">>,
    <<"psp">>,
    <<"no", "psp">>,
    <<"psp", "enable">>,
    <<"psp", "disable">>,
    <<"psp", "on">>,
    <<"psp", "off">>,
    <<"usp">>,
    <<"no", "usp">>,
    <<"usp", "enable">>,
    <<"usp", "disable">>,
    <<"usp", "true">>,
    <<"usp", "false">>,
    <<"something-unknown", "here">> }

------------------------------------------------------------------------------
(* Lexical helpers *)

\* str.lower() on the tokens of the alphabet.
Lower(tok) ==
  CASE tok = "SOURCE_ADDRESS" -> "source_address"
    [] tok = "PREFIX" -> "prefix"
    [] tok = "MICRO_segment-behavior" -> "micro_segment-behavior"
    [] OTHER -> tok

IsComment(tok) == tok \in CommentTokens

\* Index of the first comment token of l, Len(l) + 1 if there is none.
RECURSIVE FirstComment(_, _)
FirstComment(l, i) ==
  IF i > Len(l) THEN i
  ELSE IF IsComment(l[i]) THEN i
  ELSE FirstComment(l, i + 1)

\* _strip_comment(line).split(): the tokens before the first '#'.
StripComment(l) == SubSeq(l, 1, FirstComment(l, 1) - 1)

\* " ".join(toks)
RECURSIVE Join(_)
Join(toks) ==
  IF Len(toks) = 0 THEN ""
  ELSE IF Len(toks) = 1 THEN toks[1]
  ELSE toks[1] \o " " \o Join(Tail(toks))

\* line is empty or starts with '#'
IsBlankOrComment(l) == IF Len(l) = 0 THEN TRUE ELSE IsComment(l[1])

\* The rest of a line after a directive's value: nothing, or a comment.
EndOrComment(l, i) == IF Len(l) < i THEN TRUE ELSE IsComment(l[i])

\* Number of tokens taken by the keyword source[-_\s]?address, 0 if l does
\* not start with it.
SourceKwLen(l) ==
  IF Len(l) >= 1 /\ Lower(l[1]) \in {"source-address", "source_address", "sourceaddress"}
    THEN 1
  ELSE IF Len(l) >= 2 /\ Lower(l[1]) = "source" /\ Lower(l[2]) = "address"
    THEN 2
  ELSE 0

RE_SOURCE_ADDR(l) ==
  LET k == SourceKwLen(l) IN
    k > 0 /\ Len(l) >= k + 1 /\ EndOrComment(l, k + 2)

\* Variant of SourceAddrGroup that takes the whole match instead of group 1.
SourceAddrGroup_WholeMatch(l) == Join(SubSeq(l, 1, SourceKwLen(l) + 1))

SourceAddrGroup(l) == l[SourceKwLen(l) + 1]

RE_LOCATOR(l) == Len(l) = 2 /\ Lower(l[1]) = "locator"

LocatorGroup(l) == l[2]

RE_PREFIX_LINE(l) == Len(l) >= 2 /\ Lower(l[1]) = "prefix"

\* Number of tokens taken by micro[-_\s]?segment[-_\s]?behavior, 0 if l does
\* not start with it.
MicroSegKwLen(l) ==
  LET ms == {"micro-segment", "micro_segment", "microsegment"}
      sb == {"segment-behavior", "segment_behavior", "segmentbehavior"}
      msb == { "micro-segment-behavior", "micro-segment_behavior", "micro-segmentbehavior",
               "micro_segment-behavior", "micro_segment_behavior", "micro_segmentbehavior",
               "microsegment-behavior", "microsegment_behavior", "microsegmentbehavior" }
  IN
    IF Len(l) >= 1 /\ Lower(l[1]) \in msb THEN 1
    ELSE IF Len(l) >= 2 /\ Lower(l[1]) \in ms /\ Lower(l[2]) = "behavior" THEN 2
    ELSE IF Len(l) >= 2 /\ Lower(l[1]) = "micro" /\ Lower(l[2]) \in sb THEN 2
    ELSE IF Len(l) >= 3 /\ Lower(l[1]) = "micro" /\ Lower(l[2]) = "segment"
                        /\ Lower(l[3]) = "behavior" THEN 3
    ELSE 0

RE_MICROSEG(l) ==
  LET k == MicroSegKwLen(l) IN k > 0 /\ Len(l) >= k + 1

\* Variant of MicroSegGroup for a value pattern (\S+): the first token only.
\* group(1).strip(): the lazy (.+?) takes at least the first token after the
\* keyword and stops before the first later comment token.
MicroSegGroup_FirstToken(l) == l[MicroSegKwLen(l) + 1]

MicroSegGroup(l) ==
  LET k == MicroSegKwLen(l) IN
    Join(SubSeq(l, k + 1, FirstComment(l, k + 2) - 1))

RE_BEHAVIOR_LINE(l) ==
  Len(l) >= 2 /\ Lower(l[1]) = "behavior" /\ EndOrComment(l, 3)

BehaviorGroup(l) == l[2]

\* _RE_PSP / _RE_USP: (no\s+)?<flag>(?:\s+(enable|disable))?\s*(?:#.*)?
RE_FLAG(flag, l) ==
  LET p == IF Len(l) >= 1 /\ Lower(l[1]) = "no" THEN 2 ELSE 1
      q == IF Len(l) >= p + 1 /\ Lower(l[p + 1]) \in {"enable", "disable"}
             THEN p + 1 ELSE p
  IN Len(l) >= p /\ Lower(l[p]) = flag /\ EndOrComment(l, q + 1)

RE_PSP(l) == RE_FLAG("psp", l)

RE_USP(l) == RE_FLAG("usp", l)

\* t.index(flag_name): the first position of flag in t, 0 if absent.
RECURSIVE IndexOf(_, _, _)
IndexOf(t, flag, i) ==
  IF i > Len(t) THEN 0
  ELSE IF t[i] = flag THEN i
  ELSE IndexOf(t, flag, i + 1)

\* _parse_flag_from_tokens: TRUE / FALSE, or None when the flag is absent.
ParseFlagFromTokens(flag, tokens) ==
  LET t == [i \in 1..Len(tokens) |-> Lower(tokens[i])]
      idx == IndexOf(t, flag, 1)
  IN
    IF idx > 0 THEN
      IF idx + 1 <= Len(t) /\ t[idx + 1] \in {"enable", "enabled", "true", "on"} THEN "True"
      ELSE IF idx + 1 <= Len(t) /\ t[idx + 1] \in {"disable", "disabled", "false", "off"} THEN "False"
      ELSE "True"
    ELSE IF \E i \in 1..(Len(t) - 1) : t[i] = "no" /\ t[i + 1] = flag THEN "False"
    ELSE None

ToBool(v) == v = "True"

------------------------------------------------------------------------------
(* Parser state *)

VARIABLES
  source_address,   \* result["source_address"]
  locators,         \* result["locators"]: locator name -> locator dict
  current_locator,  \* name of the selected locator, None before the first
  last_prefix_obj,  \* reference to the most recent prefix dict, or NoRef
  line,             \* the line taken by the last iteration of the loop
  n,                \* number of lines consumed
  prefix_lines,     \* history: prefix <cidr> lines seen under a locator
  core,             \* the legacy parser of core.py, run on the same lines
  chk               \* a call of the validators and of the entry points

vars == <<source_address, locators, current_locator, last_prefix_obj, line, n, prefix_lines,
          core, chk>>

EmptyDict == [k \in {} |-> None]

NewDefaults == [behavior |-> None, psp |-> FALSE, usp |-> FALSE]

\* dict.setdefault(key, value) on a dict modelled as a function
SetDefault(d, key, value) ==
  IF key \in DOMAIN d THEN d ELSE d @@ (key :> value)

\* Variant of SetItem that keeps an existing value (setdefault in place of
\* the assignment).
SetItem_KeepFirst(d, key, value) ==
  IF key \in DOMAIN d THEN d ELSE d @@ (key :> value)

\* d[key] = value
SetItem(d, key, value) ==
  IF key \in DOMAIN d THEN [d EXCEPT ![key] = value] ELSE d @@ (key :> value)

\* _ensure_locator(name), as the new value of result["locators"]
EnsureLocator(locs, name) ==
  LET locs1 == SetDefault(locs, name, EmptyDict)
      loc1 == SetDefault(locs1[name], "prefixes", <<>>)
      loc2 == SetDefault(loc1, "defaults", NewDefaults)
  IN [locs1 EXCEPT ![name] = loc2]

\* Variant of SetDefaultsField that also rewrites the field in the prefix
\* entries the locator already has.
SetDefaultsField_Retroactive(locs, name, key, value) ==
  [locs EXCEPT ![name] =
     [@ EXCEPT !["defaults"] = [@ EXCEPT ![key] = value],
               !["prefixes"] = [i \in 1..Len(@) |-> [@[i] EXCEPT ![key] = value]]]]

\* defaults[key] = value for the defaults dict of locator name
SetDefaultsField(locs, name, key, value) ==
  [locs EXCEPT ![name] = [@ EXCEPT !["defaults"] = [@ EXCEPT ![key] = value]]]

\* Variant of SetPrefixField that writes to the first prefix of the locator
\* instead of the referenced one.
SetPrefixField_First(locs, ref, key, value) ==
  [locs EXCEPT ![ref.loc] =
     [@ EXCEPT !["prefixes"] = [@ EXCEPT ![1] = [@ EXCEPT ![key] = value]]]]

\* last_prefix_obj[key] = value
SetPrefixField(locs, ref, key, value) ==
  [locs EXCEPT ![ref.loc] =
     [@ EXCEPT !["prefixes"] = [@ EXCEPT ![ref.idx] = [@ EXCEPT ![key] = value]]]]

\* Variant of NewPrefixObj that does not take the behavior from the defaults.
NewPrefixObj_Unseeded(cidr, defaults) ==
  [prefix |-> cidr,
   behavior |-> None,
   psp |-> defaults.psp,
   usp |-> defaults.usp]

\* The prefix dict built at lines 258-263 from the locator's defaults.
NewPrefixObj(cidr, defaults) ==
  [prefix |-> cidr,
   behavior |-> defaults.behavior,
   psp |-> defaults.psp,
   usp |-> defaults.usp]

------------------------------------------------------------------------------
(* The legacy parser core.parse_srv6_config *)

\* The legacy parser is not run.
CoreOff ==
  [on |-> FALSE, canon |-> TRUE, error |-> FALSE,
   source_address |-> None, locators |-> EmptyDict, current_locator |-> None]

\* The legacy parser before its first line (core.py lines 19-25).  canon is
\* history: so far every locator name was declared once and has at most one
\* prefix line.
CoreStart == [CoreOff EXCEPT !.on = TRUE]

\* One iteration of the loop of core.py lines 27-45 on the stripped line l.
\* startswith is read on the first token; line.split()[1] raises IndexError
\* on a one-token line, which ends the call (error).
CoreStep(c, l) ==
  IF c.error \/ Len(l) = 0 THEN c
  ELSE IF l[1] = "source-address" THEN
    IF Len(l) >= 2 THEN [c EXCEPT !.source_address = l[2]]
    ELSE [c EXCEPT !.error = TRUE]
  ELSE IF l[1] = "locator" /\ Len(l) >= 2 THEN
    [c EXCEPT !.current_locator = l[2],
              !.locators = SetItem(@, l[2], EmptyDict),
              !.canon = @ /\ l[2] \notin DOMAIN c.locators]
  ELSE IF l[1] = "prefix" /\ c.current_locator # None THEN
    IF Len(l) >= 2
      THEN [c EXCEPT !.locators[c.current_locator] = SetItem(@, "prefix", l[2]),
                     !.canon = @ /\ "prefix" \notin DOMAIN c.locators[c.current_locator]]
      ELSE [c EXCEPT !.error = TRUE]
  ELSE IF Len(l) >= 2 /\ l[1] = "micro-segment" /\ l[2] = "behavior"
            /\ c.current_locator # None THEN
    [c EXCEPT !.locators[c.current_locator] =
                 SetItem(@, "micro_segment", Join(SubSeq(l, 3, Len(l))))]
  ELSE c

\* The input of the comparison of the two parsers: comment-free, lowercase,
\* canonically spelled lines of the four legacy directives.
CanonicalLines ==
  { <<"source-address", "S1">>,
    <<"source-address", "S2">>,
    <<"locator", "A">>,
    <<"locator", "B">>,
    <<"prefix", "P1">>,
    <<"prefix", "P2">>,
    <<"micro-segment", "behavior", "X">>,
    <<"micro-segment", "behavior", "X", "Y">> }

\* The lines a step may read.
Input == IF core.on THEN CanonicalLines ELSE Lines

\* No validator call is modelled.
ChkIdle == [pc |-> "idle"]

------------------------------------------------------------------------------
(* The prefix validators and the placeholder entry points.                   *)
(* A string is modelled by its parts: the address part split at ":" (each    *)
(* segment a sequence of one-character strings), whether a "/" is present,   *)
(* and the characters after it.  The alphabet has no ".", "%" or second "/". *)

\* Longest address, in colon-delimited segments, of the enumerated inputs.
MaxSegs == 4

DigitChars == {"0", "1", "2", "4", "5", "6", "8", "9"}
HexLetters == {"a", "b", "c", "d"}
Letters == HexLetters \cup {"g"}

DigitVal(c) ==
  CASE c = "0" -> 0 [] c = "1" -> 1 [] c = "2" -> 2 [] c = "4" -> 4
    [] c = "5" -> 5 [] c = "6" -> 6 [] c = "8" -> 8 [] c = "9" -> 9

\* str.isalpha(): non-empty and letters only.
IsAlpha(h) == Len(h) > 0 /\ \A i \in 1..Len(h) : h[i] \in Letters

\* str.isdigit(): non-empty and digits only.
IsDigit(m) == Len(m) > 0 /\ \A i \in 1..Len(m) : m[i] \in DigitChars

\* int(mask) of a digit string.
RECURSIVE IntOf(_)
IntOf(m) ==
  IF m = <<>> THEN 0
  ELSE 10 * IntOf(SubSeq(m, 1, Len(m) - 1)) + DigitVal(m[Len(m)])

\* The characters of a segment as one string.
RECURSIVE Cat(_)
Cat(h) == IF h = <<>> THEN "" ELSE h[1] \o Cat(Tail(h))

\* ":".join(segments)
RECURSIVE JoinColon(_)
JoinColon(a) ==
  IF Len(a) = 1 THEN Cat(a[1]) ELSE Cat(a[1]) \o ":" \o JoinColon(Tail(a))

\* The string the parts stand for.
Render(p) ==
  JoinColon(p.addr) \o (IF p.slash THEN "/" \o Cat(p.mask) ELSE "")

\* ipaddress: one hextet is 1 to 4 hexadecimal digits.
HextetOk(h) ==
  /\ \A i \in 1..Len(h) : h[i] \in DigitChars \cup HexLetters
  /\ Len(h) <= 4
  /\ Len(h) >= 1

\* ipaddress.IPv6Address accepts the address whose split at ":" is parts.
IPv6AddressOk(parts) ==
  LET L == Len(parts)
      skips == {i \in 2..(L - 1) : parts[i] = <<>>}
  IN IF L < 3 THEN FALSE
     ELSE IF L > 9 THEN FALSE
     ELSE IF Cardinality(skips) > 1 THEN FALSE
     ELSE IF skips # {} THEN
       LET s == CHOOSE i \in skips : TRUE
           hi == IF parts[1] = <<>> THEN s - 2 ELSE s - 1
           lo == IF parts[L] = <<>> THEN L - s - 1 ELSE L - s
       IN IF parts[1] = <<>> /\ hi # 0 THEN FALSE
          ELSE IF parts[L] = <<>> /\ lo # 0 THEN FALSE
          ELSE IF 8 - (hi + lo) < 1 THEN FALSE
          ELSE /\ \A i \in 1..hi : HextetOk(parts[i])
               /\ \A i \in (L - lo + 1)..L : HextetOk(parts[i])
     ELSE /\ L = 8
          /\ parts[1] # <<>>
          /\ parts[L] # <<>>
          /\ \A i \in 1..L : HextetOk(parts[i])

\* ipaddress.ip_network(prefix, strict=False) returns an IPv6Network: the
\* address parses and the mask, when given, is decimal and at most 128.
\* (No input of the alphabet parses as an IPv4 network.)
IPv6NetworkOk(p) ==
  /\ IPv6AddressOk(p.addr)
  /\ p.slash => (IsDigit(p.mask) /\ IntOf(p.mask) <= 128)

\* Mutant: no suite-specific guard at all.
SuiteGuard_Absent(addr) == TRUE

\* Mutant: every letters-only segment is rejected, four letters included.
SuiteGuard_NoException(addr) ==
  \A i \in 1..Len(addr) : ~IsAlpha(addr[i])

\* The suite-specific guard (lines 76-81): a non-empty letters-only segment
\* must be exactly four characters long.
SuiteGuard(addr) ==
  \A i \in 1..Len(addr) :
    (addr[i] # <<>> /\ IsAlpha(addr[i])) => Len(addr[i]) = 4

\* srv6_utils.is_valid_ipv6_prefix
is_valid_ipv6_prefix(p) ==
  IF ~p.slash THEN FALSE
  ELSE IF ~IsDigit(p.mask) THEN FALSE
  ELSE IF ~SuiteGuard(p.addr) THEN FALSE
  ELSE IPv6NetworkOk(p)

\* srv6_utils.run_srv6_test
run_srv6_test(p) ==
  IF ~is_valid_ipv6_prefix(p)
    THEN "Invalid SRv6 prefix: " \o Render(p)
    ELSE "Running automation for SRv6 prefix " \o Render(p)

\* [0-9a-fA-F]{1,4}
Hex14(h) ==
  /\ Len(h) \in 1..4
  /\ \A i \in 1..Len(h) : h[i] \in DigitChars \cup HexLetters

\* core.is_valid_ipv6: the three alternatives of the anchored pattern, on the
\* whole string.  No alternative can match a "/".
core_is_valid_ipv6(p) ==
  LET a == p.addr
      L == Len(a)
  IN IF p.slash THEN FALSE
     ELSE \/ L = 8 /\ \A i \in 1..L : Hex14(a[i])
          \/ /\ L \in 3..9
             /\ a[L] = <<>>
             /\ a[L - 1] = <<>>
             /\ \A i \in 1..(L - 2) : Hex14(a[i])
          \/ /\ L \in 3..9
             /\ a[1] = <<>>
             /\ a[L] = <<>>
             /\ \A i \in 2..(L - 1) : Hex14(a[i])

\* core.run_srv6_test
core_run_srv6_test(p) ==
  IF ~core_is_valid_ipv6(p)
    THEN "Invalid SRv6 prefix: " \o Render(p)
    ELSE "Running automation for SRv6 prefix " \o Render(p)

\* cli.main: what the command line prints.
main(p) == core_run_srv6_test(p)

\* Segments the enumerated addresses are built from.
Hextets ==
  { <<>>,
    <<"1">>,
    <<"b", "a", "d">>,
    <<"a", "b", "c", "d">>,
    <<"g", "g", "g", "g">>,
    <<"d", "b", "8", "0", "0">> }

\* k copies of the segment "1".
Ones(k) == [i \in 1..k |-> <<"1">>]

\* Addresses of eight segments and more.
LongAddrs ==
  { Ones(8),
    Ones(9),
    Ones(7) \o << <<>>, <<>> >>,
    << <<>>, <<>> >> \o Ones(7),
    << <<>> >> \o Ones(7) \o << <<>> >>,
    Ones(8) \o << <<>>, <<>> >>,
    << <<"1">>, <<>> >> \o Ones(6),
    << <<"1">>, <<>> >> \o Ones(7) }

Addrs == (UNION {[1..k -> Hextets] : k \in 1..MaxSegs}) \cup LongAddrs

\* What follows the address: nothing, or "/" and a mask.
Masks ==
  { <<>>,
    <<"0">>,
    <<"6", "4">>,
    <<"1", "2", "8">>,
    <<"1", "2", "9">>,
    <<"a", "b", "c">> }

PrefixInputs ==
  {[addr |-> a, slash |-> FALSE, mask |-> <<>>] : a \in Addrs}
    \cup {[addr |-> a, slash |-> TRUE, mask |-> m] : a \in Addrs, m \in Masks}

------------------------------------------------------------------------------
(* The parser srv6_utils.parse_srv6_config *)

Init ==
  /\ source_address = None
  /\ locators = EmptyDict
  /\ current_locator = None
  /\ last_prefix_obj = NoRef
  /\ line = <<>>
  /\ n = 0
  /\ prefix_lines = 0
  /\ core = CoreOff
  /\ chk = ChkIdle

------------------------------------------------------------------------------
(* The branches of the loop body, in the order the code tests them *)

\* The line got past the source-address and locator tests (lines 197-212).
PastLocator(l) ==
  /\ ~IsBlankOrComment(l)
  /\ ~RE_SOURCE_ADDR(l)
  /\ ~RE_LOCATOR(l)

\* The line reaches the directive tests of a selected locator (lines 214-225).
InLocator(l) ==
  /\ PastLocator(l)
  /\ current_locator # None
  /\ StripComment(l) # <<>>

DefaultsBranch(l) ==
  \/ RE_BEHAVIOR_LINE(l) /\ last_prefix_obj = NoRef
  \/ RE_PSP(l) /\ last_prefix_obj = NoRef
  \/ RE_USP(l) /\ last_prefix_obj = NoRef

\* The line reaches the post-prefix modifiers (line 277).
PostPrefix(l) ==
  /\ InLocator(l)
  /\ ~RE_MICROSEG(l)
  /\ ~DefaultsBranch(l)
  /\ ~RE_PREFIX_LINE(l)

\* A "prefix <cidr>" line met while a locator is selected.
IsPrefixDirective(l) ==
  InLocator(l) /\ ~RE_MICROSEG(l) /\ ~DefaultsBranch(l)
    /\ RE_PREFIX_LINE(l) /\ Len(StripComment(l)) >= 2

Consume(l) ==
  /\ n < MaxLines
  /\ line' = l
  /\ n' = n + 1
  /\ prefix_lines' = IF IsPrefixDirective(l) THEN prefix_lines + 1 ELSE prefix_lines
  /\ core' = IF core.on THEN CoreStep(core, l) ELSE core
  /\ UNCHANGED chk

\* lines 196-198
SkipLine ==
  \E l \in Input :
    /\ Consume(l)
    /\ IsBlankOrComment(l)
    /\ UNCHANGED <<source_address, locators, current_locator, last_prefix_obj>>

\* lines 200-204
SourceAddress ==
  \E l \in Input :
    /\ Consume(l)
    /\ ~IsBlankOrComment(l)
    /\ RE_SOURCE_ADDR(l)
    /\ source_address' = SourceAddrGroup(l)
    /\ UNCHANGED <<locators, current_locator, last_prefix_obj>>

\* Variant of Locator that starts the named locator's entry afresh, as the
\* assignment data["locators"][name] = {} would.
Locator_Recreates ==
  \E l \in Input :
    /\ Consume(l)
    /\ ~IsBlankOrComment(l)
    /\ ~RE_SOURCE_ADDR(l)
    /\ RE_LOCATOR(l)
    /\ current_locator' = LocatorGroup(l)
    /\ locators' = EnsureLocator(SetItem(locators, LocatorGroup(l), EmptyDict), LocatorGroup(l))
    /\ last_prefix_obj' = NoRef
    /\ UNCHANGED source_address

\* Variant of Locator that keeps the most-recent-prefix reference.
Locator_KeepsTracking ==
  \E l \in Input :
    /\ Consume(l)
    /\ ~IsBlankOrComment(l)
    /\ ~RE_SOURCE_ADDR(l)
    /\ RE_LOCATOR(l)
    /\ current_locator' = LocatorGroup(l)
    /\ locators' = EnsureLocator(locators, LocatorGroup(l))
    /\ UNCHANGED <<source_address, last_prefix_obj>>

\* lines 206-212
Locator ==
  \E l \in Input :
    /\ Consume(l)
    /\ ~IsBlankOrComment(l)
    /\ ~RE_SOURCE_ADDR(l)
    /\ RE_LOCATOR(l)
    /\ current_locator' = LocatorGroup(l)
    /\ locators' = EnsureLocator(locators, LocatorGroup(l))
    /\ last_prefix_obj' = NoRef
    /\ UNCHANGED source_address

\* lines 214-216
NoLocatorYet ==
  \E l \in Input :
    /\ Consume(l)
    /\ PastLocator(l)
    /\ current_locator = None
    /\ UNCHANGED <<source_address, locators, current_locator, last_prefix_obj>>

\* Variant of MicroSegUpdate that routes the value like the modern behavior
\* directive: to the most recent prefix when there is one.
MicroSegUpdate_Routed(locs, name, val) ==
  LET locs1 == IF last_prefix_obj = NoRef
                 THEN SetDefaultsField(locs, name, "behavior", val)
                 ELSE SetPrefixField(locs, last_prefix_obj, "behavior", val)
  IN [locs1 EXCEPT ![name] = SetItem(@, "micro_segment", val)]

\* lines 230-232: defaults["behavior"] = val; loc["micro_segment"] = val
MicroSegUpdate(locs, name, val) ==
  LET locs1 == SetDefaultsField(locs, name, "behavior", val)
  IN [locs1 EXCEPT ![name] = SetItem(@, "micro_segment", val)]

\* lines 227-233
MicroSegment ==
  \E l \in Input :
    /\ Consume(l)
    /\ InLocator(l)
    /\ RE_MICROSEG(l)
    /\ locators' = MicroSegUpdate(EnsureLocator(locators, current_locator),
                                  current_locator, MicroSegGroup(l))
    /\ UNCHANGED <<source_address, current_locator, last_prefix_obj>>

\* lines 235-239
BehaviorDefault ==
  \E l \in Input :
    /\ Consume(l)
    /\ InLocator(l)
    /\ ~RE_MICROSEG(l)
    /\ RE_BEHAVIOR_LINE(l) /\ last_prefix_obj = NoRef
    /\ locators' = SetDefaultsField(EnsureLocator(locators, current_locator),
                                    current_locator, "behavior", BehaviorGroup(l))
    /\ UNCHANGED <<source_address, current_locator, last_prefix_obj>>

\* The assignment guarded by "if val is not None" (lines 243-245, 249-251).
FlagDefault(locs, flag, l) ==
  LET val == ParseFlagFromTokens(flag, StripComment(l)) IN
    IF val # None
      THEN SetDefaultsField(locs, current_locator, flag, ToBool(val))
      ELSE locs

\* lines 241-246
PspDefault ==
  \E l \in Input :
    /\ Consume(l)
    /\ InLocator(l)
    /\ ~RE_MICROSEG(l)
    /\ ~(RE_BEHAVIOR_LINE(l) /\ last_prefix_obj = NoRef)
    /\ RE_PSP(l) /\ last_prefix_obj = NoRef
    /\ locators' = FlagDefault(EnsureLocator(locators, current_locator), "psp", l)
    /\ UNCHANGED <<source_address, current_locator, last_prefix_obj>>

\* lines 248-252
UspDefault ==
  \E l \in Input :
    /\ Consume(l)
    /\ InLocator(l)
    /\ ~RE_MICROSEG(l)
    /\ ~(RE_BEHAVIOR_LINE(l) /\ last_prefix_obj = NoRef)
    /\ ~(RE_PSP(l) /\ last_prefix_obj = NoRef)
    /\ RE_USP(l) /\ last_prefix_obj = NoRef
    /\ locators' = FlagDefault(EnsureLocator(locators, current_locator), "usp", l)
    /\ UNCHANGED <<source_address, current_locator, last_prefix_obj>>

\* Variant of AppendPrefix that overwrites the legacy "prefix" key on every
\* prefix line.
AppendPrefix_Overwrite(loc, cidr) ==
  LET prefix_obj == NewPrefixObj(cidr, loc.defaults)
      loc1 == [loc EXCEPT !["prefixes"] = Append(@, prefix_obj)]
  IN SetItem(loc1, "prefix", cidr)

\* Variant of AppendPrefix that adds nothing to a list that already holds an
\* entry for the same CIDR.
AppendPrefix_Dedup(loc, cidr) ==
  LET prefix_obj == NewPrefixObj(cidr, loc.defaults)
      seen == \E i \in 1..Len(loc.prefixes) : loc.prefixes[i].prefix = cidr
      loc1 == IF seen THEN loc ELSE [loc EXCEPT !["prefixes"] = Append(@, prefix_obj)]
  IN IF "prefix" \notin DOMAIN loc1 THEN loc1 @@ ("prefix" :> cidr) ELSE loc1

\* Variant of AppendPrefix that puts the new entry at the head of the list.
AppendPrefix_Front(loc, cidr) ==
  LET prefix_obj == NewPrefixObj(cidr, loc.defaults)
      loc1 == [loc EXCEPT !["prefixes"] = <<prefix_obj>> \o @]
  IN IF "prefix" \notin DOMAIN loc1 THEN loc1 @@ ("prefix" :> cidr) ELSE loc1

\* The locator dict after lines 257-270: the new prefix dict appended, the
\* legacy "prefix" key set if absent.  The same-line modifiers are not read.
AppendPrefix(loc, cidr) ==
  LET prefix_obj == NewPrefixObj(cidr, loc.defaults)
      loc1 == [loc EXCEPT !["prefixes"] = Append(@, prefix_obj)]
  IN IF "prefix" \notin DOMAIN loc1 THEN loc1 @@ ("prefix" :> cidr) ELSE loc1

\* lines 254-274
PrefixLine ==
  \E l \in Input :
    /\ Consume(l)
    /\ InLocator(l)
    /\ ~RE_MICROSEG(l)
    /\ ~DefaultsBranch(l)
    /\ RE_PREFIX_LINE(l)
    /\ LET tokens == StripComment(l)
           locs1 == EnsureLocator(locators, current_locator)
       IN IF Len(tokens) >= 2
            THEN /\ locators' = [locs1 EXCEPT ![current_locator] = AppendPrefix(@, tokens[2])]
                 /\ last_prefix_obj' = [loc |-> current_locator,
                                        idx |-> Len(locs1[current_locator].prefixes) + 1]
            ELSE /\ locators' = locs1
                 /\ UNCHANGED last_prefix_obj
    /\ UNCHANGED <<source_address, current_locator>>

\* lines 277-282
BehaviorPrefix ==
  \E l \in Input :
    /\ Consume(l)
    /\ PostPrefix(l)
    /\ last_prefix_obj # NoRef
    /\ RE_BEHAVIOR_LINE(l)
    /\ locators' = SetPrefixField(EnsureLocator(locators, current_locator),
                                  last_prefix_obj, "behavior", BehaviorGroup(l))
    /\ UNCHANGED <<source_address, current_locator, last_prefix_obj>>

\* The assignment guarded by "if val is not None" (lines 286-288, 292-294).
FlagPrefix(locs, flag, l) ==
  LET val == ParseFlagFromTokens(flag, StripComment(l)) IN
    IF val # None
      THEN SetPrefixField(locs, last_prefix_obj, flag, ToBool(val))
      ELSE locs

\* lines 284-289
PspPrefix ==
  \E l \in Input :
    /\ Consume(l)
    /\ PostPrefix(l)
    /\ last_prefix_obj # NoRef
    /\ ~RE_BEHAVIOR_LINE(l)
    /\ RE_PSP(l)
    /\ locators' = FlagPrefix(EnsureLocator(locators, current_locator), "psp", l)
    /\ UNCHANGED <<source_address, current_locator, last_prefix_obj>>

\* lines 291-295
UspPrefix ==
  \E l \in Input :
    /\ Consume(l)
    /\ PostPrefix(l)
    /\ last_prefix_obj # NoRef
    /\ ~RE_BEHAVIOR_LINE(l)
    /\ ~RE_PSP(l)
    /\ RE_USP(l)
    /\ locators' = FlagPrefix(EnsureLocator(locators, current_locator), "usp", l)
    /\ UNCHANGED <<source_address, current_locator, last_prefix_obj>>

\* Variant of UnknownLine that drops the most-recent-prefix reference when a
\* line is not understood.
UnknownLine_ClearsTracking ==
  \E l \in Input :
    /\ Consume(l)
    /\ PostPrefix(l)
    /\ \/ last_prefix_obj = NoRef
       \/ ~RE_BEHAVIOR_LINE(l) /\ ~RE_PSP(l) /\ ~RE_USP(l)
    /\ locators' = EnsureLocator(locators, current_locator)
    /\ last_prefix_obj' = NoRef
    /\ UNCHANGED <<source_address, current_locator>>

\* line 297: no test matched
UnknownLine ==
  \E l \in Input :
    /\ Consume(l)
    /\ PostPrefix(l)
    /\ \/ last_prefix_obj = NoRef
       \/ ~RE_BEHAVIOR_LINE(l) /\ ~RE_PSP(l) /\ ~RE_USP(l)
    /\ locators' = EnsureLocator(locators, current_locator)
    /\ UNCHANGED <<source_address, current_locator, last_prefix_obj>>

Next ==
  \/ SkipLine
  \/ SourceAddress
  \/ Locator
  \/ NoLocatorYet
  \/ MicroSegment
  \/ BehaviorDefault
  \/ PspDefault
  \/ UspDefault
  \/ PrefixLine
  \/ BehaviorPrefix
  \/ PspPrefix
  \/ UspPrefix
  \/ UnknownLine

Spec == Init /\ [][Next]_vars

------------------------------------------------------------------------------
(* Both parsers on the same canonical lines *)

InitCore ==
  /\ source_address = None
  /\ locators = EmptyDict
  /\ current_locator = None
  /\ last_prefix_obj = NoRef
  /\ line = <<>>
  /\ n = 0
  /\ prefix_lines = 0
  /\ core = CoreStart
  /\ chk = ChkIdle

\* The branches canonical lines can take.
NextCore ==
  \/ SourceAddress
  \/ Locator
  \/ NoLocatorYet
  \/ MicroSegment
  \/ PrefixLine

SpecCore == InitCore /\ [][NextCore]_vars

------------------------------------------------------------------------------
(* The validator, the entry point and the command line on one input string *)

InitV ==
  /\ source_address = None
  /\ locators = EmptyDict
  /\ current_locator = None
  /\ last_prefix_obj = NoRef
  /\ line = <<>>
  /\ n = 0
  /\ prefix_lines = 0
  /\ core = CoreOff
  /\ \E p \in PrefixInputs : chk = [pc |-> "start", prefix |-> p]

ParserIdle ==
  UNCHANGED <<source_address, locators, current_locator, last_prefix_obj,
              line, n, prefix_lines, core>>

\* is_valid_ipv6_prefix(prefix)
ValidatePrefix ==
  /\ chk.pc = "start"
  /\ chk' = [pc |-> "validated", prefix |-> chk.prefix,
             valid |-> is_valid_ipv6_prefix(chk.prefix)]
  /\ ParserIdle

\* srv6_utils.run_srv6_test(prefix)
RunSrv6Test ==
  /\ chk.pc = "validated"
  /\ chk' = [pc |-> "tested", prefix |-> chk.prefix, valid |-> chk.valid,
             msg |-> run_srv6_test(chk.prefix)]
  /\ ParserIdle

\* The command line on the same argument: cli.main -> core.run_srv6_test.
CliMain ==
  /\ chk.pc = "tested"
  /\ chk' = [pc |-> "done", prefix |-> chk.prefix, valid |-> chk.valid,
             msg |-> chk.msg, out |-> main(chk.prefix)]
  /\ ParserIdle

NextV ==
  \/ ValidatePrefix
  \/ RunSrv6Test
  \/ CliMain

SpecV == InitV /\ [][NextV]_vars

------------------------------------------------------------------------------
(* Vocabulary of the properties *)

\* A standalone behavior / psp / usp directive in a form the parser accepts.
IsModifier(l) == RE_BEHAVIOR_LINE(l) \/ RE_PSP(l) \/ RE_USP(l)

\* The field a standalone modifier names.
ModifierKey(l) ==
  IF RE_BEHAVIOR_LINE(l) THEN "behavior" ELSE IF RE_PSP(l) THEN "psp" ELSE "usp"

\* The value a flag directive asks for: "no <flag>" and "<flag> disable" ask
\* for false, "<flag>" and "<flag> enable" for true.
FlagAsked(l) ==
  LET t == StripComment(l) IN
    ~(Lower(t[1]) = "no" \/ Lower(t[Len(t)]) = "disable")

\* The step changes at most field key of prefix i of locator name.
OnlyPrefixField(name, i, key) ==
  locators' = [locators EXCEPT ![name] =
     [@ EXCEPT !["prefixes"] =
        [@ EXCEPT ![i] = [@ EXCEPT ![key] = locators'[name].prefixes[i][key]]]]]

\* The step changes at most field key of the defaults of locator name.
OnlyDefaultsField(name, key) ==
  locators' = [locators EXCEPT ![name] =
     [@ EXCEPT !["defaults"] = [@ EXCEPT ![key] = locators'[name].defaults[key]]]]

\* All prefix lists are what they were.
PrefixesUnchanged ==
  \A nm \in DOMAIN locators :
    nm \in DOMAIN locators' /\ locators'[nm].prefixes = locators[nm].prefixes

------------------------------------------------------------------------------
(* C1 *)

\* C1 as stated: whenever the current locator has at least one prefix, a
\* standalone behavior/psp/usp directive leaves the locator's defaults
\* unchanged and a behavior directive sets the behavior of the locator's
\* most recently added prefix.
C1_AnyPrefixRoutesToPrefix ==
  [][ (/\ current_locator # None
       /\ Len(locators[current_locator].prefixes) > 0
       /\ IsModifier(line'))
      => LET name == current_locator
             i == Len(locators[name].prefixes)
         IN /\ locators'[name].defaults = locators[name].defaults
            /\ RE_BEHAVIOR_LINE(line')
                 => locators'[name].prefixes[i].behavior = BehaviorGroup(line') ]_vars

\* C1 (amended): if a prefix has been added under the current locator since
\* the locator was last selected, a standalone behavior/psp/usp directive
\* changes nothing but the named field of the most recently added prefix of
\* that locator (so the defaults are unchanged), and a behavior directive
\* sets that field to its value.
C1_ModifierAfterPrefixRoutesToPrefix ==
  [][ (last_prefix_obj # NoRef /\ IsModifier(line'))
      => LET name == current_locator
             i == Len(locators[name].prefixes)
         IN /\ last_prefix_obj = [loc |-> name, idx |-> i]
            /\ OnlyPrefixField(name, i, ModifierKey(line'))
            /\ locators'[name].defaults = locators[name].defaults
            /\ RE_BEHAVIOR_LINE(line')
                 => locators'[name].prefixes[i].behavior = BehaviorGroup(line') ]_vars

\* A behavior directive has just overridden the second prefix of a locator
\* and neither the defaults nor the first prefix carry its value.
C1_Witness ==
  /\ last_prefix_obj # NoRef
  /\ RE_BEHAVIOR_LINE(line)
  /\ LET loc == locators[current_locator] IN
       /\ Len(loc.prefixes) >= 2
       /\ last_prefix_obj.idx = Len(loc.prefixes)
       /\ loc.prefixes[Len(loc.prefixes)].behavior = BehaviorGroup(line)
       /\ loc.prefixes[1].behavior # BehaviorGroup(line)
       /\ loc.defaults.behavior # BehaviorGroup(line)

------------------------------------------------------------------------------
(* C2 *)

\* The flag a standalone flag directive targets, read after the directive:
\* the most recent prefix if there is one, else the current defaults.
TargetFlag(key) ==
  IF last_prefix_obj = NoRef
    THEN locators[current_locator].defaults[key]
    ELSE locators[last_prefix_obj.loc].prefixes[last_prefix_obj.idx][key]

\* C2: after a standalone psp or usp directive under an active locator the
\* targeted flag is true for "<flag>" and "<flag> enable" and false for
\* "no <flag>" and "<flag> disable".
C2_FlagDirectiveSetsAskedValue ==
  (n > 0 /\ current_locator # None /\ (RE_PSP(line) \/ RE_USP(line)))
    => TargetFlag(ModifierKey(line)) = FlagAsked(line)

------------------------------------------------------------------------------
(* C3 *)

\* The value a same-line "behavior <value>" gives, None if the prefix line
\* has none.
InlineBehavior(l) ==
  LET t == StripComment(l)
      i == IndexOf([k \in 1..Len(t) |-> IF k <= 2 THEN "" ELSE Lower(t[k])], "behavior", 1)
  IN IF i > 0 /\ i < Len(t) THEN t[i + 1] ELSE None

\* A same-line flag modifier is present on the prefix line.
InlineFlagGiven(l, flag) ==
  LET t == StripComment(l) IN \E k \in 3..Len(t) : Lower(t[k]) = flag

\* The value the same-line flag modifier asks for.
InlineFlagAsked(l, flag) ==
  LET t == StripComment(l)
      i == IndexOf([k \in 1..Len(t) |-> IF k <= 2 THEN "" ELSE Lower(t[k])], flag, 1)
  IN ~(\/ Lower(t[i - 1]) = "no"
       \/ i < Len(t) /\ Lower(t[i + 1]) \in {"disable", "disabled", "false", "off"})

\* C3: a prefix <cidr> line under an active locator appends an entry whose
\* behavior/psp/usp are the same-line values where given and the locator's
\* defaults otherwise, and leaves the defaults unchanged.
C3_InlineModifiersApplied ==
  [][ (/\ current_locator # None
       /\ RE_PREFIX_LINE(line')
       /\ Len(StripComment(line')) >= 2)
      => LET name == current_locator
             d == locators[name].defaults
             l == line'
             k == Len(locators[name].prefixes) + 1
         IN /\ Len(locators'[name].prefixes) = k
            /\ locators'[name].defaults = d
            /\ LET e == locators'[name].prefixes[k] IN
                 /\ e.prefix = StripComment(l)[2]
                 /\ e.behavior = IF InlineBehavior(l) # None THEN InlineBehavior(l) ELSE d.behavior
                 /\ e.psp = IF InlineFlagGiven(l, "psp") THEN InlineFlagAsked(l, "psp") ELSE d.psp
                 /\ e.usp = IF InlineFlagGiven(l, "usp") THEN InlineFlagAsked(l, "usp") ELSE d.usp ]_vars

------------------------------------------------------------------------------
(* C4 *)

\* C4: once a prefix has been added in a locator block, a behavior/psp/usp
\* directive changes only the most recent prefix and a further prefix line
\* appends an entry seeded from the defaults; both leave the locator's
\* defaults as they were.  Hence behavior X, prefix P1, behavior Y, prefix P2
\* ends with P1.behavior = Y and P2.behavior = X.
C4_OverrideKeepsDefaultsForLaterPrefixes ==
  [][ (last_prefix_obj # NoRef /\ current_locator' = current_locator)
      => LET name == current_locator
             old == locators[name]
             new == locators'[name]
             k == Len(old.prefixes)
         IN /\ IsModifier(line')
                 => /\ new.defaults = old.defaults
                    /\ Len(new.prefixes) = k
                    /\ \A i \in 1..(k - 1) : new.prefixes[i] = old.prefixes[i]
            /\ (RE_PREFIX_LINE(line') /\ Len(StripComment(line')) >= 2)
                 => /\ new.defaults = old.defaults
                    /\ Len(new.prefixes) = k + 1
                    /\ \A i \in 1..k : new.prefixes[i] = old.prefixes[i]
                    /\ new.prefixes[k + 1].behavior = old.defaults.behavior
                    /\ new.prefixes[k + 1].psp = old.defaults.psp
                    /\ new.prefixes[k + 1].usp = old.defaults.usp ]_vars

\* The end of the scenario: the second prefix has just been added, the first
\* carries the override and the second the default set before the first.
C4_Witness ==
  /\ current_locator # None
  /\ RE_PREFIX_LINE(line)
  /\ LET loc == locators[current_locator] IN
       /\ Len(loc.prefixes) = 2
       /\ last_prefix_obj = [loc |-> current_locator, idx |-> 2]
       /\ loc.defaults.behavior = "X"
       /\ loc.prefixes[1].behavior = "Y"
       /\ loc.prefixes[2].behavior = "X"
       /\ "micro_segment" \notin DOMAIN loc

------------------------------------------------------------------------------
(* C5 *)

\* The legacy directive has just been processed under a selected locator.
MicroSegProcessed == n > 0 /\ current_locator # None /\ RE_MICROSEG(line)

\* C5 as stated: the legacy directive sets defaults.behavior when there is
\* no most recent prefix and the behavior of the most recent prefix when
\* there is one.
C5_MicroSegRoutedLikeBehavior ==
  MicroSegProcessed
    => IF last_prefix_obj = NoRef
         THEN locators[current_locator].defaults.behavior = MicroSegGroup(line)
         ELSE locators[last_prefix_obj.loc].prefixes[last_prefix_obj.idx].behavior
                = MicroSegGroup(line)

\* C5 (amended): the legacy directive always sets defaults.behavior (and
\* micro_segment) of the current locator, also when a prefix has already
\* been added under it, and changes no prefix entry.
C5_MicroSegSetsDefaults ==
  [][ (current_locator # None /\ RE_MICROSEG(line'))
      => LET name == current_locator IN
           /\ locators'[name].defaults.behavior = MicroSegGroup(line')
           /\ locators'[name].micro_segment = MicroSegGroup(line')
           /\ PrefixesUnchanged
           /\ \A nm \in DOMAIN locators' \ {name} :
                nm \in DOMAIN locators /\ locators'[nm] = locators[nm] ]_vars

\* The legacy directive came after a prefix: it went to the defaults and the
\* most recent prefix kept another behavior.
C5_Witness ==
  /\ MicroSegProcessed
  /\ last_prefix_obj # NoRef
  /\ locators[current_locator].defaults.behavior = MicroSegGroup(line)
  /\ locators[last_prefix_obj.loc].prefixes[last_prefix_obj.idx].behavior
       # MicroSegGroup(line)

------------------------------------------------------------------------------
(* C6 *)

\* C6 as stated: a locator that has micro_segment has it equal to its
\* defaults.behavior, in every reachable state.
C6_MicroSegmentMirrorsDefaults ==
  \A nm \in DOMAIN locators :
    "micro_segment" \in DOMAIN locators[nm]
      => locators[nm].micro_segment = locators[nm].defaults.behavior

\* C6 (amended): micro_segment is written only by the legacy directive, which
\* makes it equal to defaults.behavior of the current locator; every other
\* directive leaves it as it was, also a behavior directive that changes
\* defaults.behavior.
C6_MicroSegmentSetOnlyByLegacyDirective ==
  [][ \A nm \in DOMAIN locators' :
        IF current_locator # None /\ RE_MICROSEG(line') /\ nm = current_locator
          THEN /\ "micro_segment" \in DOMAIN locators'[nm]
               /\ locators'[nm].micro_segment = locators'[nm].defaults.behavior
               /\ locators'[nm].micro_segment = MicroSegGroup(line')
          ELSE IF nm \in DOMAIN locators /\ "micro_segment" \in DOMAIN locators[nm]
                 THEN /\ "micro_segment" \in DOMAIN locators'[nm]
                      /\ locators'[nm].micro_segment = locators[nm].micro_segment
                 ELSE "micro_segment" \notin DOMAIN locators'[nm] ]_vars

\* A behavior directive has changed defaults.behavior of a locator whose
\* micro_segment was set before and keeps its value.
C6_Witness ==
  /\ current_locator # None
  /\ RE_BEHAVIOR_LINE(line)
  /\ last_prefix_obj = NoRef
  /\ "micro_segment" \in DOMAIN locators[current_locator]
  /\ locators[current_locator].defaults.behavior = BehaviorGroup(line)
  /\ locators[current_locator].micro_segment # BehaviorGroup(line)

------------------------------------------------------------------------------
(* C7 *)

\* C7: a locator directive clears the most-recent-prefix tracking; while it
\* is clear only a prefix <cidr> line sets it, and a behavior/psp/usp
\* directive changes nothing but the named field of the selected locator's
\* defaults (a behavior directive sets it to its value), so no prefix entry
\* of any locator changes.
C7_LocatorResetsTracking ==
  [][ /\ (~RE_SOURCE_ADDR(line') /\ RE_LOCATOR(line'))
           => /\ last_prefix_obj' = NoRef
              /\ current_locator' = LocatorGroup(line')
      /\ (last_prefix_obj = NoRef /\ last_prefix_obj' # NoRef)
           => RE_PREFIX_LINE(line') /\ Len(StripComment(line')) >= 2
      /\ (current_locator # None /\ last_prefix_obj = NoRef /\ IsModifier(line'))
           => /\ OnlyDefaultsField(current_locator, ModifierKey(line'))
              /\ PrefixesUnchanged
              /\ RE_BEHAVIOR_LINE(line')
                   => locators'[current_locator].defaults.behavior = BehaviorGroup(line') ]_vars

\* A behavior directive after the re-selection of a locator that already
\* has a prefix: the defaults took the value, the prefix did not.
C7_Witness ==
  /\ current_locator # None
  /\ last_prefix_obj = NoRef
  /\ RE_BEHAVIOR_LINE(line)
  /\ LET loc == locators[current_locator] IN
       /\ Len(loc.prefixes) >= 1
       /\ loc.defaults.behavior = BehaviorGroup(line)
       /\ loc.prefixes[Len(loc.prefixes)].behavior # BehaviorGroup(line)

------------------------------------------------------------------------------
(* C8 *)

\* C8: a step that changes the defaults of some locator leaves every prefix
\* entry of every locator unchanged.
C8_DefaultsNeverRetroactive ==
  [][ (\E nm \in DOMAIN locators : locators'[nm].defaults # locators[nm].defaults)
      => PrefixesUnchanged ]_vars

\* The legacy directive has changed the defaults of a locator that has a
\* prefix entry created under other defaults.
C8_Witness ==
  /\ MicroSegProcessed
  /\ LET loc == locators[current_locator] IN
       /\ Len(loc.prefixes) >= 1
       /\ loc.defaults.behavior = MicroSegGroup(line)
       /\ \A i \in 1..Len(loc.prefixes) : loc.prefixes[i].behavior # loc.defaults.behavior

------------------------------------------------------------------------------
(* C9 *)

\* The legacy "prefix" key is there exactly when the list is non-empty and
\* holds the CIDR of the first entry.
LegacyPrefixIsFirst(loc) ==
  /\ "prefix" \in DOMAIN loc <=> Len(loc.prefixes) > 0
  /\ Len(loc.prefixes) > 0 => loc.prefix = loc.prefixes[1].prefix

\* C9: in every reachable state every locator's legacy prefix field is
\* present exactly when its prefixes list is non-empty and equals the CIDR of
\* the first element, and no step changes it once it is set.
C9_LegacyPrefixSetOnce ==
  /\ [](\A nm \in DOMAIN locators : LegacyPrefixIsFirst(locators[nm]))
  /\ [][ \A nm \in DOMAIN locators :
           "prefix" \in DOMAIN locators[nm]
             => /\ "prefix" \in DOMAIN locators'[nm]
                /\ locators'[nm].prefix = locators[nm].prefix ]_vars

\* A further prefix with another CIDR has just been added; the legacy field
\* still holds the first CIDR.
C9_Witness ==
  /\ current_locator # None
  /\ RE_PREFIX_LINE(line)
  /\ LET loc == locators[current_locator] IN
       /\ Len(loc.prefixes) >= 2
       /\ last_prefix_obj = [loc |-> current_locator, idx |-> Len(loc.prefixes)]
       /\ loc.prefixes[Len(loc.prefixes)].prefix # loc.prefixes[1].prefix
       /\ loc.prefix = loc.prefixes[1].prefix

------------------------------------------------------------------------------
(* C10 *)

RECURSIVE SumPrefixes(_, _)
SumPrefixes(locs, names) ==
  IF names = {} THEN 0
  ELSE LET nm == CHOOSE x \in names : TRUE
       IN Len(locs[nm].prefixes) + SumPrefixes(locs, names \ {nm})

\* Number of prefix entries in the result.
TotalPrefixes == SumPrefixes(locators, DOMAIN locators)

\* C10: until the first locator directive has been processed locators is
\* empty and only a source-address or locator directive changes the parser
\* state; and the number of prefix entries always equals the number of
\* prefix <cidr> directives processed while a locator was selected.
C10_NothingBeforeLocator ==
  /\ [](current_locator = None => locators = EmptyDict /\ last_prefix_obj = NoRef)
  /\ [](TotalPrefixes = prefix_lines)
  /\ [][ (current_locator = None /\ ~RE_SOURCE_ADDR(line') /\ ~RE_LOCATOR(line'))
         => UNCHANGED <<source_address, locators, current_locator, last_prefix_obj>> ]_vars

\* A prefix line met before any locator left the result empty.
C10_Witness ==
  /\ current_locator = None
  /\ n >= 2
  /\ RE_PREFIX_LINE(line)
  /\ Len(StripComment(line)) >= 2
  /\ locators = EmptyDict
  /\ prefix_lines = 0

------------------------------------------------------------------------------
(* C11 *)

\* A source-address <token> directive: the keyword and exactly one token
\* before any comment.
IsSourceAddrDirective(l) ==
  LET t == StripComment(l) IN
    /\ Len(t) = 2
    /\ Lower(t[1]) \in {"source-address", "source_address", "sourceaddress"}

\* C11: source_address is None until a source-address <token> directive is
\* processed; such a directive sets it to its token, wherever it stands, and
\* no other line changes it.
C11_SourceAddressLastWins ==
  /\ source_address = None
  /\ [][ IF IsSourceAddrDirective(line')
           THEN source_address' = StripComment(line')[2]
           ELSE source_address' = source_address ]_vars

\* A source-address directive inside a locator block that already has a
\* prefix has set the value.
C11_Witness ==
  /\ n > 0
  /\ IsSourceAddrDirective(line)
  /\ current_locator # None
  /\ Len(locators[current_locator].prefixes) >= 1
  /\ source_address = StripComment(line)[2]

------------------------------------------------------------------------------
(* C12 *)

SynonymsTrue == {"enabled", "true", "on"}

SynonymsFalse == {"disabled", "false", "off"}

\* A standalone flag directive written with a synonym of enable / disable.
IsSynonymLine(l) ==
  /\ Len(l) = 2
  /\ Lower(l[1]) \in {"psp", "usp"}
  /\ Lower(l[2]) \in SynonymsTrue \cup SynonymsFalse

\* C12: after a standalone flag directive written with a synonym, under an
\* active locator, the targeted flag is true for enabled/true/on and false
\* for disabled/false/off.
C12_SynonymSetsFlag ==
  (n > 0 /\ current_locator # None /\ IsSynonymLine(line))
    => TargetFlag(Lower(line[1])) = (Lower(line[2]) \in SynonymsTrue)

------------------------------------------------------------------------------
(* C13 *)

Keywords ==
  {"source-address", "source_address", "sourceaddress", "source", "locator",
   "prefix", "behavior", "micro-segment", "micro_segment", "microsegment", "micro",
   "micro-segment-behavior", "micro-segment_behavior", "micro-segmentbehavior",
   "micro_segment-behavior", "micro_segment_behavior", "micro_segmentbehavior",
   "microsegment-behavior", "microsegment_behavior", "microsegmentbehavior",
   "psp", "usp", "no"}

\* A blank line, a full-line comment, a line with an unknown keyword, or a
\* source-address / locator / prefix keyword without its argument.
IsUnrecognized(l) ==
  IF Len(l) = 0 THEN TRUE
  ELSE \/ IsComment(l[1])
       \/ Lower(l[1]) \notin Keywords
       \/ /\ Len(StripComment(l)) = 1
          /\ Lower(l[1]) \in {"source-address", "source_address", "sourceaddress",
                              "locator", "prefix"}

\* C13: a line of no recognized shape, a blank line and a full-line comment
\* leave the result, the current locator and the most-recent-prefix
\* reference unchanged.
C13_UnrecognizedLineIgnored ==
  [][ IsUnrecognized(line')
      => UNCHANGED <<source_address, locators, current_locator, last_prefix_obj>> ]_vars

\* An unknown line has been read in a locator block after a prefix; the
\* reference to that prefix is still there.
C13_Witness ==
  /\ n > 0
  /\ Len(line) > 0
  /\ Lower(line[1]) \notin Keywords
  /\ current_locator # None
  /\ last_prefix_obj # NoRef

------------------------------------------------------------------------------
(* C18 *)

\* C18: a locator <name> directive leaves every existing locator entry as it
\* was, the named one included, and gives a new name an entry with defaults
\* {behavior: None, psp: false, usp: false}, an empty prefixes list and no
\* legacy field; it selects the name and clears the most-recent-prefix
\* reference.
C18_LocatorKeepsExistingEntry ==
  [][ (~RE_SOURCE_ADDR(line') /\ RE_LOCATOR(line'))
      => LET name == line'[2] IN
           /\ DOMAIN locators' = DOMAIN locators \cup {name}
           /\ \A nm \in DOMAIN locators : locators'[nm] = locators[nm]
           /\ name \notin DOMAIN locators
                => /\ DOMAIN locators'[name] = {"prefixes", "defaults"}
                   /\ locators'[name].prefixes = <<>>
                   /\ locators'[name].defaults
                        = [behavior |-> None, psp |-> FALSE, usp |-> FALSE]
           /\ current_locator' = name
           /\ last_prefix_obj' = NoRef
           /\ source_address' = source_address ]_vars

\* A locator that has a prefix, changed defaults and micro_segment has just
\* been selected again.
C18_Witness ==
  /\ n > 0
  /\ RE_LOCATOR(line)
  /\ current_locator = line[2]
  /\ last_prefix_obj = NoRef
  /\ LET loc == locators[current_locator] IN
       /\ Len(loc.prefixes) >= 1
       /\ loc.defaults.behavior # None
       /\ "micro_segment" \in DOMAIN loc
       /\ "prefix" \in DOMAIN loc

------------------------------------------------------------------------------
(* C19 *)

\* The CIDR strings of a prefixes list, in order.
Cidrs(loc) == [i \in 1..Len(loc.prefixes) |-> loc.prefixes[i].prefix]

\* C19: no locator entry disappears, and every step either leaves the list of
\* CIDRs of a locator as it was or, for the current locator only, appends
\* exactly one CIDR at its end.
C19_PrefixesAppendOnly ==
  [][ \A nm \in DOMAIN locators :
        /\ nm \in DOMAIN locators'
        /\ \/ Cidrs(locators'[nm]) = Cidrs(locators[nm])
           \/ /\ nm = current_locator
              /\ Len(line') >= 2
              /\ Cidrs(locators'[nm]) = Append(Cidrs(locators[nm]), line'[2]) ]_vars

\* A further prefix with another CIDR has just been put at the end of the
\* current locator's list.
C19_Witness ==
  /\ current_locator # None
  /\ RE_PREFIX_LINE(line)
  /\ LET loc == locators[current_locator] IN
       /\ Len(loc.prefixes) = 2
       /\ loc.prefixes[2].prefix = line[2]
       /\ loc.prefixes[1].prefix # line[2]

------------------------------------------------------------------------------
(* C20 *)

\* The legacy fields of a locator entry agree in the two results.
LegacyFieldsAgree(a, b) ==
  \A key \in {"prefix", "micro_segment"} :
    /\ key \in DOMAIN a <=> key \in DOMAIN b
    /\ key \in DOMAIN a => a[key] = b[key]

\* C20: on canonical lines of the four legacy directives in which each
\* locator name is declared once and has at most one prefix line, the two
\* parsers agree on source_address, on the set of locator names and on each
\* locator's prefix and micro_segment fields; the legacy parser raises no
\* error.
C20_ParsersAgreeOnLegacyInput ==
  (core.on /\ core.canon)
    => /\ ~core.error
       /\ core.source_address = source_address
       /\ DOMAIN core.locators = DOMAIN locators
       /\ \A nm \in DOMAIN locators : LegacyFieldsAgree(core.locators[nm], locators[nm])

\* Two locators were declared once each, one has a prefix and a two-word
\* micro-segment value, and a source address was given.
C20_Witness ==
  /\ core.on /\ core.canon
  /\ source_address # None
  /\ DOMAIN locators = {"A", "B"}
  /\ \E nm \in DOMAIN locators :
       /\ "prefix" \in DOMAIN locators[nm]
       /\ "micro_segment" \in DOMAIN locators[nm]
       /\ locators[nm].micro_segment = "X Y"


------------------------------------------------------------------------------
(* Properties of the prefix validator and the entry points *)

\* is_valid_ipv6_prefix has returned for the input.
Validated == chk.pc \in {"validated", "tested", "done"}

\* <addr>/<len>: a parseable IPv6 address, a "/" and a decimal mask length
\* in 0..128.
WellFormedCidr(p) ==
  /\ p.slash
  /\ IPv6AddressOk(p.addr)
  /\ IF IsDigit(p.mask) THEN IntOf(p.mask) <= 128 ELSE FALSE

\* The mask part is decimal and greater than 128.
MaskTooLarge(p) == IF IsDigit(p.mask) THEN IntOf(p.mask) > 128 ELSE FALSE

\* The address part has a non-empty letters-only segment whose length is
\* not 4.
HasOddAlphaSegment(p) ==
  \E i \in 1..Len(p.addr) : IsAlpha(p.addr[i]) /\ Len(p.addr[i]) # 4

\* The address part has a letters-only segment of length exactly 4.
HasAlpha4Segment(p) ==
  \E i \in 1..Len(p.addr) : IsAlpha(p.addr[i]) /\ Len(p.addr[i]) = 4

\* C14 (as stated): the message the command line prints is "Invalid SRv6
\* prefix: p" exactly when is_valid_ipv6_prefix(p) is false and "Running
\* automation for SRv6 prefix p" exactly when it is true.
C14_CliReportsPrefixValidation ==
  chk.pc = "done"
    => chk.out = IF chk.valid
                   THEN "Running automation for SRv6 prefix " \o Render(chk.prefix)
                   ELSE "Invalid SRv6 prefix: " \o Render(chk.prefix)

\* C15 (as stated): every <addr>/<len> with a parseable IPv6 address and a
\* digit-only mask length in 0..128 is accepted by is_valid_ipv6_prefix.
C15_WellFormedCidrAccepted ==
  (Validated /\ WellFormedCidr(chk.prefix)) => chk.valid

\* C15 (amended): every <addr>/<len> with a parseable IPv6 address and a
\* digit-only mask length in 0..128 is accepted by is_valid_ipv6_prefix,
\* provided no non-empty segment of the address is letters-only with a
\* length other than 4.
C15_WellFormedCidrAcceptedUnlessOddLetters ==
  (Validated /\ WellFormedCidr(chk.prefix) /\ ~HasOddAlphaSegment(chk.prefix))
    => chk.valid

\* "abcd::/64" has been accepted.
C15_Witness ==
  /\ Validated
  /\ chk.prefix = [addr |-> << <<"a", "b", "c", "d">>, <<>>, <<>> >>,
                   slash |-> TRUE, mask |-> <<"6", "4">>]
  /\ chk.valid

\* C16: is_valid_ipv6_prefix returns false for every input without "/", with
\* a mask that is not purely decimal digits, with a mask greater than 128, or
\* with a non-empty letters-only address segment of length other than 4; a
\* letters-only segment of length exactly 4 does not by itself cause
\* rejection (an otherwise well-formed input that has one is accepted).
C16_RejectsMalformedPrefix ==
  Validated
    => /\ ( \/ ~chk.prefix.slash
            \/ ~IsDigit(chk.prefix.mask)
            \/ MaskTooLarge(chk.prefix)
            \/ HasOddAlphaSegment(chk.prefix) ) => ~chk.valid
       /\ ( /\ WellFormedCidr(chk.prefix)
            /\ HasAlpha4Segment(chk.prefix)
            /\ ~HasOddAlphaSegment(chk.prefix) ) => chk.valid

\* An input that is a well-formed CIDR string in every other respect has been
\* rejected for its letters-only segment ("bad::/64").
C16_Witness ==
  /\ Validated
  /\ WellFormedCidr(chk.prefix)
  /\ HasOddAlphaSegment(chk.prefix)
  /\ chk.prefix.mask = <<"6", "4">>
  /\ ~chk.valid

====
